---- MODULE Spec2Model ----
(***************************************************************************)
(* Model of the mapping registry RPCs of src/rpc/bet.cpp:                  *)
(*   getmappingid   (name -> id, creating the mapping when it is absent)   *)
(*   getmappingname (id -> name)                                           *)
(* The mapping database (CMappingDB) and the type catalog                  *)
(* (CMapping::FromTypeName / ToTypeName) are collaborators of these RPCs.  *)
(***************************************************************************)
EXTENDS Integers, Sequences, FiniteSets, TLC

VARIABLES
    store,        \* the mapping database: per mapping type, loadable flag and records
    storeBefore,  \* the database as it was when the last sequential call started
    ret,          \* outcome of the last sequential call
    pc,           \* per RPC thread: position inside its handler
    loc,          \* per RPC thread: the handler's locals
    res,          \* per RPC thread: outcome of its last finished call
    nCalls,       \* number of calls the RPC threads have entered
    replica       \* a second, independent registry: its database and last outcome

vars == <<store, storeBefore, ret, pc, loc, res, nCalls, replica>>

----------------------------------------------------------------------------
(* Bounds *)

MaxInitId == 3        \* largest id of a record present before the first call
MaxInitRecs == 3      \* number of records present before the first call
MaxConcInitRecs == 1  \* largest id and number of records before the first call, concurrent runs
MaxCalls == 2         \* calls the RPC threads serve, concurrent runs

Names == {"Football", "Tennis"}   \* the names callers ask for
Ids == 0..(MaxInitId + 2)         \* the ids callers ask for
Threads == {1, 2}                 \* RPC worker threads

----------------------------------------------------------------------------
(* Type catalog *)

sportMapping == "sportMapping"
teamMapping == "teamMapping"
unknownMapping == "unknownMapping"
MappingTypes == {sportMapping, teamMapping}

NoTypeName == "<no type name>"
TypeNames == {"sport", "team"}
IndexNames == TypeNames \cup {"not-a-real-type"}

FromTypeName(mIndex) ==
    IF mIndex = "sport" THEN sportMapping
    ELSE IF mIndex = "team" THEN teamMapping
    ELSE unknownMapping

ToTypeName(type) ==
    IF type = sportMapping THEN "sport"
    ELSE IF type = teamMapping THEN "team"
    ELSE NoTypeName

----------------------------------------------------------------------------
(* Mapping database *)

CMapping(type, id, name) ==
    [nMType |-> type, nId |-> id, sName |-> name, nVersion |-> 1]

KeysOf(recs) == {r.nId : r \in recs}

\* Read succeeds exactly when the database holds an index for the type.
ReadOk(st, type) == type \in MappingTypes /\ st[type].loadable

\* The indexes a Read can fill in: a map keyed by id, one record per key.
RECURSIVE IndexesOver(_, _)
IndexesOver(keys, recs) ==
    IF keys = {} THEN {<<>>}
    ELSE LET k == CHOOSE x \in keys : TRUE
         IN  {f @@ (k :> r) : f \in IndexesOver(keys \ {k}, recs),
                              r \in {x \in recs : x.nId = k}}

ReadIndexes(st, type) == IndexesOver(KeysOf(st[type].recs), st[type].recs)

\* Save appends one record to the index of its type, or fails and writes nothing.
Save(st, cm, saveOk) ==
    IF saveOk
    THEN [st EXCEPT ![cm.nMType].recs = @ \cup {cm}]
    ELSE st

----------------------------------------------------------------------------
(* Error messages thrown by the handlers *)

ErrInvalidMappingType == "No mapping exist for the mapping index you provided."
ErrIndexUnavailable == "No mapping saved for the mapping type you provided."
ErrMappingNotFound == "Currently no mapping name exists for the mapping name you provided."
Ok == "ok"

----------------------------------------------------------------------------
(* getmappingid: the scan over the loaded index *)

SetMin(S) == CHOOSE x \in S : \A y \in S : x <= y

\* (a counter that starts at 1)
ScanInit_FromOne ==
    [nFirstIndexFree |-> 1, mappingFound |-> FALSE,
     FirstIndexFreeFound |-> FALSE, mapping |-> <<>>]

ScanInit ==
    [nFirstIndexFree |-> 0, mappingFound |-> FALSE,
     FirstIndexFreeFound |-> FALSE, mapping |-> <<>>]

\* One iteration of the for loop: it->first = key, it->second = rec.
ScanStep_CountAll(s, key, rec, name, mIndex) ==
    LET s1 == IF ~s.mappingFound /\ rec.sName = name
              THEN [s EXCEPT !.mappingFound = TRUE,
                             !.mapping = Append(@, [mapping_id |-> rec.nId,
                                                    exists |-> TRUE,
                                                    mapping_index |-> mIndex])]
              ELSE s
    IN  [s1 EXCEPT !.nFirstIndexFree = @ + 1]

\* (a loop that reports every record with the name, not only the first)
ScanStep_PushEvery(s, key, rec, name, mIndex) ==
    LET s1 == IF rec.sName = name
              THEN [s EXCEPT !.mappingFound = TRUE,
                             !.mapping = Append(@, [mapping_id |-> rec.nId,
                                                    exists |-> TRUE,
                                                    mapping_index |-> mIndex])]
              ELSE s
    IN  IF ~s1.FirstIndexFreeFound
        THEN IF key # s1.nFirstIndexFree
             THEN [s1 EXCEPT !.FirstIndexFreeFound = TRUE]
             ELSE [s1 EXCEPT !.nFirstIndexFree = @ + 1]
        ELSE s1

ScanStep(s, key, rec, name, mIndex) ==
    LET s1 == IF ~s.mappingFound /\ rec.sName = name
              THEN [s EXCEPT !.mappingFound = TRUE,
                             !.mapping = Append(@, [mapping_id |-> rec.nId,
                                                    exists |-> TRUE,
                                                    mapping_index |-> mIndex])]
              ELSE s
    IN  IF ~s1.FirstIndexFreeFound
        THEN IF key # s1.nFirstIndexFree
             THEN [s1 EXCEPT !.FirstIndexFreeFound = TRUE]
             ELSE [s1 EXCEPT !.nFirstIndexFree = @ + 1]
        ELSE s1

RECURSIVE ScanLoop(_, _, _, _, _)
ScanLoop(s, keys, mappingIndex, name, mIndex) ==
    IF keys = {} THEN s
    ELSE LET k == SetMin(keys)
         IN  ScanLoop(ScanStep(s, k, mappingIndex[k], name, mIndex),
                      keys \ {k}, mappingIndex, name, mIndex)

Scan(mappingIndex, name, mIndex) ==
    ScanLoop(ScanInit, DOMAIN mappingIndex, mappingIndex, name, mIndex)

----------------------------------------------------------------------------
(* The checks both handlers make before they look at the index *)

\* if (CMapping::ToTypeName(type) != mIndex) throw ...
InvalidIndex_Skipped(mIndex) == FALSE

InvalidIndex(mIndex) == ToTypeName(FromTypeName(mIndex)) # mIndex

\* if (!dbMapping.Read(type, mappingIndex)) throw ...
ReadFailed_Ignored(st, type) == FALSE

ReadFailed(st, type) == ~ReadOk(st, type)

Outcome(st, status, mapping) == [store |-> st, status |-> status, mapping |-> mapping]

----------------------------------------------------------------------------
(* getmappingid, from the scan to the return *)

\* (a handler that saves without looking at mappingFound)
IdFinish_AlwaysSave(st, type, mIndex, name, mappingIndex, saveOk) ==
    LET s == Scan(mappingIndex, name, mIndex)
    IN  Outcome(Save(st, CMapping(type, s.nFirstIndexFree, name), saveOk),
                Ok,
                IF ~s.mappingFound
                THEN Append(s.mapping, [mapping_id |-> s.nFirstIndexFree,
                                        exists |-> FALSE,
                                        mapping_index |-> mIndex])
                ELSE s.mapping)

\* (a handler that files every new record under the sport type)
IdFinish_SportType(st, type, mIndex, name, mappingIndex, saveOk) ==
    LET s == Scan(mappingIndex, name, mIndex)
    IN  IF ~s.mappingFound
        THEN Outcome(Save(st, CMapping(sportMapping, s.nFirstIndexFree, name), saveOk),
                     Ok,
                     Append(s.mapping, [mapping_id |-> s.nFirstIndexFree,
                                        exists |-> FALSE,
                                        mapping_index |-> mIndex]))
        ELSE Outcome(st, Ok, s.mapping)

IdFinish(st, type, mIndex, name, mappingIndex, saveOk) ==
    LET s == Scan(mappingIndex, name, mIndex)
    IN  IF ~s.mappingFound
        THEN Outcome(Save(st, CMapping(type, s.nFirstIndexFree, name), saveOk),
                     Ok,
                     Append(s.mapping, [mapping_id |-> s.nFirstIndexFree,
                                        exists |-> FALSE,
                                        mapping_index |-> mIndex]))
        ELSE Outcome(st, Ok, s.mapping)

(* getmappingname, from the scan to the return *)

\* The for loop over the index: the record whose key equals id, if any.
FindById_FirstAtLeast(mappingIndex, id) ==
    LET later == {k \in DOMAIN mappingIndex : k >= id}
    IN  IF later = {} THEN <<>> ELSE <<mappingIndex[SetMin(later)]>>

FindById(mappingIndex, id) ==
    LET hit == {k \in DOMAIN mappingIndex : k = id}
    IN  IF hit = {} THEN <<>> ELSE <<mappingIndex[SetMin(hit)]>>

\* (a handler that records the id it did not find)
NameFinish_SavesMiss(st, mIndex, id, mappingIndex) ==
    LET found == FindById(mappingIndex, id)
    IN  IF found = <<>>
        THEN Outcome(Save(st, CMapping(FromTypeName(mIndex), id, ""), TRUE),
                     ErrMappingNotFound, <<>>)
        ELSE Outcome(st, Ok, <<[mapping_name |-> found[1].sName,
                                exists |-> TRUE,
                                mapping_index |-> mIndex]>>)

NameFinish(st, mIndex, id, mappingIndex) ==
    LET found == FindById(mappingIndex, id)
    IN  IF found = <<>>
        THEN Outcome(st, ErrMappingNotFound, <<>>)
        ELSE Outcome(st, Ok, <<[mapping_name |-> found[1].sName,
                                exists |-> TRUE,
                                mapping_index |-> mIndex]>>)

----------------------------------------------------------------------------
(* Sequential calls: one handler runs from entry to return *)

Return(op, mIndex, name, id, out) ==
    /\ store' = out.store
    /\ storeBefore' = store
    /\ ret' = [op |-> op, mIndex |-> mIndex, name |-> name, id |-> id,
               status |-> out.status, mapping |-> out.mapping]
    /\ UNCHANGED <<pc, loc, res, nCalls, replica>>

getmappingid(mIndex, name, saveOk) ==
    LET type == FromTypeName(mIndex)
    IN  IF InvalidIndex(mIndex)
        THEN Return("getmappingid", mIndex, name, 0,
                    Outcome(store, ErrInvalidMappingType, <<>>))
        ELSE IF ReadFailed(store, type)
        THEN Return("getmappingid", mIndex, name, 0,
                    Outcome(store, ErrIndexUnavailable, <<>>))
        ELSE \E mappingIndex \in ReadIndexes(store, type) :
                Return("getmappingid", mIndex, name, 0,
                       IdFinish(store, type, mIndex, name, mappingIndex, saveOk))

getmappingname(mIndex, id) ==
    LET type == FromTypeName(mIndex)
    IN  IF InvalidIndex(mIndex)
        THEN Return("getmappingname", mIndex, "", id,
                    Outcome(store, ErrInvalidMappingType, <<>>))
        ELSE IF ReadFailed(store, type)
        THEN Return("getmappingname", mIndex, "", id,
                    Outcome(store, ErrIndexUnavailable, <<>>))
        ELSE \E mappingIndex \in ReadIndexes(store, type) :
                Return("getmappingname", mIndex, "", id,
                       NameFinish(store, mIndex, id, mappingIndex))

----------------------------------------------------------------------------
(* Initial states *)

NoCall == [op |-> "none", mIndex |-> "", name |-> "", id |-> 0,
           status |-> Ok, mapping |-> <<>>]

NoLocals == [op |-> "none", mIndex |-> "", name |-> "", id |-> 0,
             mappingIndex |-> <<>>]

\* The indexes a type can hold before the first call: ids pairwise distinct.
InitRecords(type, maxId, maxRecs) ==
    UNION {{{CMapping(type, k, f[k]) : k \in K} : f \in [K -> Names]} :
              K \in {X \in SUBSET (0..maxId) : Cardinality(X) <= maxRecs}}

\* Databases before the first call: a type may have no index at all, and at
\* most one type has records yet.
InitStores(maxId, maxRecs) ==
    UNION {{[t \in MappingTypes |->
                IF t = h THEN [loadable |-> (recs # {}) \/ lh, recs |-> recs]
                         ELSE [loadable |-> lo, recs |-> {}]] :
              recs \in InitRecords(h, maxId, maxRecs), lh \in BOOLEAN, lo \in BOOLEAN} :
           h \in MappingTypes}

InitWith(maxId, maxRecs) ==
    /\ store \in InitStores(maxId, maxRecs)
    /\ storeBefore = store
    /\ ret = NoCall
    /\ pc = [p \in Threads |-> "idle"]
    /\ loc = [p \in Threads |-> NoLocals]
    /\ res = [p \in Threads |-> NoCall]
    /\ nCalls = 0
    /\ replica = [store |-> store, ret |-> NoCall]

Init == InitWith(MaxInitId, MaxInitRecs)

Next ==
    \/ \E mIndex \in IndexNames, name \in Names, saveOk \in BOOLEAN :
          getmappingid(mIndex, name, saveOk)
    \/ \E mIndex \in IndexNames, id \in Ids :
          getmappingname(mIndex, id)

Spec == Init /\ [][Next]_vars

\* Sequential calls on a database whose indexes all start without records.
InitEmpty == InitWith(0, 0)

SpecEmpty == InitEmpty /\ [][Next]_vars

----------------------------------------------------------------------------
(* Concurrent calls: RPC worker threads run the handlers without a lock, so  *)
(* another thread can run between a handler's Read and its Save.             *)

Finished(p, op, mIndex, name, id, out) ==
    /\ store' = out.store
    /\ res' = [res EXCEPT ![p] = [op |-> op, mIndex |-> mIndex, name |-> name,
                                  id |-> id, status |-> out.status,
                                  mapping |-> out.mapping]]
    /\ pc' = [pc EXCEPT ![p] = "idle"]
    /\ loc' = [loc EXCEPT ![p] = NoLocals]
    /\ UNCHANGED <<storeBefore, ret, replica>>

Loaded(p, op, mIndex, name, id, mappingIndex) ==
    /\ pc' = [pc EXCEPT ![p] = "scan"]
    /\ loc' = [loc EXCEPT ![p] = [op |-> op, mIndex |-> mIndex, name |-> name,
                                  id |-> id, mappingIndex |-> mappingIndex]]
    /\ UNCHANGED <<store, storeBefore, ret, res, replica>>

\* Entry of a handler up to and including dbMapping.Read.
Enter(p, op, mIndex, name, id) ==
    /\ pc[p] = "idle"
    /\ nCalls < MaxCalls
    /\ nCalls' = nCalls + 1
    /\ LET type == FromTypeName(mIndex)
       IN  IF InvalidIndex(mIndex)
           THEN Finished(p, op, mIndex, name, id,
                         Outcome(store, ErrInvalidMappingType, <<>>))
           ELSE IF ReadFailed(store, type)
           THEN Finished(p, op, mIndex, name, id,
                         Outcome(store, ErrIndexUnavailable, <<>>))
           ELSE \E mappingIndex \in ReadIndexes(store, type) :
                   Loaded(p, op, mIndex, name, id, mappingIndex)

IdEnter(p, mIndex, name) == Enter(p, "getmappingid", mIndex, name, 0)

NameEnter(p, mIndex, id) == Enter(p, "getmappingname", mIndex, "", id)

\* The scan of getmappingid over its loaded copy, the Save, the return.
IdLeave(p, saveOk) ==
    /\ pc[p] = "scan"
    /\ loc[p].op = "getmappingid"
    /\ UNCHANGED nCalls
    /\ Finished(p, "getmappingid", loc[p].mIndex, loc[p].name, 0,
                IdFinish(store, FromTypeName(loc[p].mIndex), loc[p].mIndex,
                         loc[p].name, loc[p].mappingIndex, saveOk))

\* The scan of getmappingname over its loaded copy, the return.
NameLeave(p) ==
    /\ pc[p] = "scan"
    /\ loc[p].op = "getmappingname"
    /\ UNCHANGED nCalls
    /\ Finished(p, "getmappingname", loc[p].mIndex, "", loc[p].id,
                NameFinish(store, loc[p].mIndex, loc[p].id, loc[p].mappingIndex))

InitConc == InitWith(MaxConcInitRecs, MaxConcInitRecs)

NextConc ==
    \/ \E p \in Threads, mIndex \in IndexNames, name \in Names : IdEnter(p, mIndex, name)
    \/ \E p \in Threads, saveOk \in BOOLEAN : IdLeave(p, saveOk)
    \/ \E p \in Threads, mIndex \in IndexNames, id \in Ids : NameEnter(p, mIndex, id)
    \/ \E p \in Threads : NameLeave(p)

SpecConc == InitConc /\ [][NextConc]_vars

----------------------------------------------------------------------------
(* Two registries: each runs getmappingid on its own database. Both start   *)
(* from the same persisted index and are given the same calls; the outcome  *)
(* of Save is part of the call.                                             *)

\* Every outcome getmappingid can have on database st.
IdOutcomes(st, mIndex, name, saveOk) ==
    LET type == FromTypeName(mIndex)
    IN  IF InvalidIndex(mIndex)
        THEN {Outcome(st, ErrInvalidMappingType, <<>>)}
        ELSE IF ReadFailed(st, type)
        THEN {Outcome(st, ErrIndexUnavailable, <<>>)}
        ELSE {IdFinish(st, type, mIndex, name, mappingIndex, saveOk) :
                 mappingIndex \in ReadIndexes(st, type)}

Answer(op, mIndex, name, id, out) ==
    [op |-> op, mIndex |-> mIndex, name |-> name, id |-> id,
     status |-> out.status, mapping |-> out.mapping]

ReplicatedId(mIndex, name, saveOk) ==
    /\ \E out \in IdOutcomes(store, mIndex, name, saveOk) :
          /\ store' = out.store
          /\ storeBefore' = store
          /\ ret' = Answer("getmappingid", mIndex, name, 0, out)
    /\ \E out \in IdOutcomes(replica.store, mIndex, name, saveOk) :
          replica' = [store |-> out.store,
                      ret |-> Answer("getmappingid", mIndex, name, 0, out)]
    /\ UNCHANGED <<pc, loc, res, nCalls>>

NextRep ==
    \E mIndex \in IndexNames, name \in Names, saveOk \in BOOLEAN :
        ReplicatedId(mIndex, name, saveOk)

SpecRep == Init /\ [][NextRep]_vars

----------------------------------------------------------------------------
(* Vocabulary of the properties *)

\* The smallest non-negative integer that is not in S.
SmallestFree(S) ==
    CHOOSE n \in 0..Cardinality(S) : n \notin S /\ \A m \in 0..(n - 1) : m \in S

ValidIndex(mIndex) == ToTypeName(FromTypeName(mIndex)) = mIndex

RecsBefore(mIndex) == storeBefore[FromTypeName(mIndex)].recs
RecsNow(mIndex) == store[FromTypeName(mIndex)].recs

\* The last sequential call was getmappingid and returned normally.
IdReturned == ret.op = "getmappingid" /\ ret.status = Ok

\* ... and it reported a newly created mapping (exists = false).
IdCreated == IdReturned /\ ret.mapping[Len(ret.mapping)].exists = FALSE

----------------------------------------------------------------------------
\* C1: within one mapping type the ids of the records are pairwise distinct,
\* after any sequence of getmappingid and getmappingname calls on a database
\* whose ids were pairwise distinct to begin with.
C1_IdUniqueness ==
    \A t \in MappingTypes : \A r1, r2 \in store[t].recs :
        r1.nId = r2.nId => r1 = r2

\* A record was created and saved into an index that already held records
\* with a gap between their ids.
C1_Witness ==
    /\ IdCreated
    /\ RecsNow(ret.mIndex) # RecsBefore(ret.mIndex)
    /\ Cardinality(RecsBefore(ret.mIndex)) >= 2
    /\ SmallestFree(KeysOf(RecsBefore(ret.mIndex))) < Cardinality(RecsBefore(ret.mIndex))

\* C2: creations on one mapping type are serialized, so two calls with
\* different new names never both persist a record at the same id.
C2_SerializedCreation ==
    \A t \in MappingTypes :
        ~ \E r1, r2 \in store[t].recs : r1.nId = r2.nId /\ r1.sName # r2.sName

\* C3: a created record gets the smallest non-negative integer that is not an
\* id of the index as loaded, and the scan's counter ends at that integer for
\* every index the database can hold.
C3_SmallestFreeSlot ==
    /\ IdCreated =>
          ret.mapping[1].mapping_id = SmallestFree(KeysOf(RecsBefore(ret.mIndex)))
    /\ \A mIndex \in TypeNames : \A name \in Names :
          \A mappingIndex \in ReadIndexes(store, FromTypeName(mIndex)) :
              Scan(mappingIndex, name, mIndex).nFirstIndexFree
                  = SmallestFree(DOMAIN mappingIndex)

\* Ids {0,1,3} were loaded and the created record got id 2.
C3_Witness ==
    /\ IdCreated
    /\ KeysOf(RecsBefore(ret.mIndex)) = {0, 1, 3}
    /\ ret.mapping[1].mapping_id = 2

\* C4: getmappingid called twice in a row with the same arguments, the name
\* being absent at first: the second call returns the same id with
\* exists = true and adds no record.
C4_Idempotence ==
    [][(/\ IdCreated
        /\ ret'.op = "getmappingid"
        /\ ret'.mIndex = ret.mIndex
        /\ ret'.name = ret.name)
       => (/\ ret'.status = Ok
           /\ ret'.mapping[1].mapping_id = ret.mapping[1].mapping_id
           /\ ret'.mapping[1].exists = TRUE
           /\ store' = store)]_vars

\* C5: getmappingname on the id that getmappingid just returned succeeds and
\* returns the name that was asked for.
C5_RoundTrip ==
    [][(/\ IdReturned
        /\ ret'.op = "getmappingname"
        /\ ret'.mIndex = ret.mIndex
        /\ ret'.id = ret.mapping[1].mapping_id)
       => (/\ ret'.status = Ok
           /\ ret'.mapping[1].mapping_name = ret.name)]_vars

\* C6: a record that is in the database stays in it, and no record of the
\* same type and id with another name ever appears.
C6_AppendOnly ==
    [][\A t \in MappingTypes : \A r \in store[t].recs :
          /\ r \in store'[t].recs
          /\ \A r2 \in store'[t].recs : r2.nId = r.nId => r2.sName = r.sName]_vars

\* A record was saved next to records that were there before.
C6_Witness ==
    /\ IdCreated
    /\ RecsBefore(ret.mIndex) # {}
    /\ RecsNow(ret.mIndex) # RecsBefore(ret.mIndex)
    /\ RecsBefore(ret.mIndex) \subseteq RecsNow(ret.mIndex)

\* C7: getmappingid does not return a created mapping whose record was not
\* saved; a failed Save makes the call fail.
C7_SaveFailureReported ==
    IdCreated =>
        CMapping(FromTypeName(ret.mIndex), ret.mapping[1].mapping_id, ret.name)
            \in RecsNow(ret.mIndex)

\* C8: a call whose index name does not round-trip through the type catalog
\* fails with the invalid-mapping-type error and leaves the database as it was.
C8_InvalidNamespace ==
    (ret.op # "none" /\ ~ValidIndex(ret.mIndex)) =>
        /\ ret.status = ErrInvalidMappingType
        /\ ret.mapping = <<>>
        /\ store = storeBefore

C8_Witness ==
    /\ ret.op = "getmappingid"
    /\ ret.mIndex = "not-a-real-type"
    /\ ret.status = ErrInvalidMappingType

\* C9: a call on a valid type whose index cannot be loaded fails with the
\* index-unavailable error; nothing is saved and the type still has no index.
C9_IndexUnavailable ==
    (/\ ret.op # "none"
     /\ ValidIndex(ret.mIndex)
     /\ ~storeBefore[FromTypeName(ret.mIndex)].loadable) =>
        /\ ret.status = ErrIndexUnavailable
        /\ ret.mapping = <<>>
        /\ store = storeBefore
        /\ ~store[FromTypeName(ret.mIndex)].loadable
        /\ RecsNow(ret.mIndex) = {}

C9_Witness ==
    /\ ret.op = "getmappingid"
    /\ ValidIndex(ret.mIndex)
    /\ ~storeBefore[FromTypeName(ret.mIndex)].loadable
    /\ ret.status = ErrIndexUnavailable

\* C10: getmappingname on a loaded index returns the name of the record keyed
\* by the id, with exists = true, when there is one, and fails with the
\* not-found error when there is none.
C10_ResolveById ==
    (/\ ret.op = "getmappingname"
     /\ ValidIndex(ret.mIndex)
     /\ storeBefore[FromTypeName(ret.mIndex)].loadable) =>
        LET hits == {r \in RecsBefore(ret.mIndex) : r.nId = ret.id}
        IN  IF hits = {}
            THEN ret.status = ErrMappingNotFound /\ ret.mapping = <<>>
            ELSE /\ ret.status = Ok
                 /\ \E r \in hits :
                       ret.mapping = <<[mapping_name |-> r.sName,
                                        exists |-> TRUE,
                                        mapping_index |-> ret.mIndex]>>

\* Ids {0,1} and id 5: not found.
C10_Witness ==
    /\ ret.op = "getmappingname"
    /\ ValidIndex(ret.mIndex)
    /\ KeysOf(RecsBefore(ret.mIndex)) = {0, 1}
    /\ ret.id = 5
    /\ ret.status = ErrMappingNotFound

NameMatches == {r \in RecsBefore(ret.mIndex) : r.sName = ret.name}

\* C12: when the loaded index has a record with the requested name,
\* getmappingid returns that record's id with exists = true and saves nothing.
C12_MatchWritesNothing ==
    (IdReturned /\ NameMatches # {}) =>
        /\ Len(ret.mapping) = 1
        /\ ret.mapping[1].exists = TRUE
        /\ \E r \in NameMatches : ret.mapping[1].mapping_id = r.nId
        /\ store = storeBefore

\* The name was matched in an index of several records, not at the first key.
C12_Witness ==
    /\ IdReturned
    /\ NameMatches # {}
    /\ Cardinality(RecsBefore(ret.mIndex)) >= 2
    /\ ret.mapping[1].mapping_id # SetMin(KeysOf(RecsBefore(ret.mIndex)))

\* C13: when the loaded index has no record with the requested name,
\* getmappingid saves exactly the record {free slot, type, name, version 1},
\* leaves every other record as it was and returns the free slot with
\* exists = false.
C13_CreateAppendsOne ==
    (IdReturned /\ NameMatches = {}) =>
        LET type == FromTypeName(ret.mIndex)
            slot == SmallestFree(KeysOf(RecsBefore(ret.mIndex)))
        IN  /\ ret.mapping = <<[mapping_id |-> slot, exists |-> FALSE,
                                mapping_index |-> ret.mIndex]>>
            /\ store = [storeBefore EXCEPT
                           ![type].recs = @ \cup {CMapping(type, slot, ret.name)}]

\* Thread p is inside getmappingid, past its Read, and its loaded index has
\* no record with the requested name: it is about to create one.
Creating(p) ==
    /\ pc[p] = "scan"
    /\ loc[p].op = "getmappingid"
    /\ \A k \in DOMAIN loc[p].mappingIndex :
          loc[p].mappingIndex[k].sName # loc[p].name

\* Thread q is past its Read in getmappingname, or in a getmappingid call
\* that found the name.
Reading(q) ==
    /\ pc[q] = "scan"
    /\ ~Creating(q)

\* C14: of the concurrent getmappingid calls for one type and one new name
\* exactly one creates the record; a call never reports exists = false for a
\* name whose record another call has already put into the index.
C14_CreatedOnce ==
    [][\A p \in Threads :
          (/\ pc[p] = "scan"
           /\ pc'[p] = "idle"
           /\ res'[p].op = "getmappingid"
           /\ res'[p].status = Ok
           /\ res'[p].mapping[1].exists = FALSE)
          => ~ \E r \in store[FromTypeName(res'[p].mIndex)].recs :
                    r.sName = res'[p].name]_vars

\* C15: a getmappingname call or a non-creating getmappingid call is never in
\* flight together with a creating getmappingid call on the same type.
C15_ReadersExcluded ==
    \A p, q \in Threads :
        (p # q /\ Creating(p) /\ Reading(q)) => loc[q].mIndex # loc[p].mIndex

\* C16: when several records of the loaded index carry the requested name,
\* getmappingid returns the id of the one with the smallest key, reports it
\* exactly once and creates nothing.
C16_FirstDuplicateWins ==
    (IdReturned /\ Cardinality(NameMatches) >= 2) =>
        /\ ret.mapping = <<[mapping_id |-> SetMin(KeysOf(NameMatches)),
                            exists |-> TRUE,
                            mapping_index |-> ret.mIndex]>>
        /\ store = storeBefore

\* Two records carried the name, neither at the smallest key of the index.
C16_Witness ==
    /\ IdReturned
    /\ Cardinality(NameMatches) >= 2
    /\ SetMin(KeysOf(NameMatches)) # SetMin(KeysOf(RecsBefore(ret.mIndex)))
    /\ Len(ret.mapping) = 1

\* C17: when every index starts without records, after any sequence of
\* sequential calls the ids of each index are exactly 0..n-1 for its n
\* records, and the names within an index are pairwise distinct.
C17_DenseIds ==
    \A t \in MappingTypes :
        /\ KeysOf(store[t].recs) = 0..(Cardinality(store[t].recs) - 1)
        /\ \A r1, r2 \in store[t].recs : r1.sName = r2.sName => r1 = r2

\* Both names were created in one index, and the other index has a record too.
C17_Witness ==
    \E t1, t2 \in MappingTypes :
        /\ t1 # t2
        /\ Cardinality(store[t1].recs) = 2
        /\ store[t2].recs # {}

\* The database with only the index of type left in it.
OnlyIndex(st, type) ==
    [t \in MappingTypes |->
        IF t = type THEN st[t] ELSE [loadable |-> FALSE, recs |-> {}]]

\* C18: a getmappingid call on one type leaves the index of every other type
\* as it was, and its outcome is the one it has when the other indexes are
\* not there at all.
C18_NamespaceIsolation ==
    (ret.op = "getmappingid" /\ ValidIndex(ret.mIndex)) =>
        LET type == FromTypeName(ret.mIndex)
        IN  /\ \A t \in MappingTypes \ {type} : store[t] = storeBefore[t]
            /\ \E saveOk \in BOOLEAN :
                  \E out \in IdOutcomes(OnlyIndex(storeBefore, type),
                                        ret.mIndex, ret.name, saveOk) :
                      /\ out.status = ret.status
                      /\ out.mapping = ret.mapping
                      /\ out.store[type] = store[type]

\* A record was created under a name and id that another type holds as well.
C18_Witness ==
    /\ IdCreated
    /\ RecsNow(ret.mIndex) # RecsBefore(ret.mIndex)
    /\ \E t \in MappingTypes \ {FromTypeName(ret.mIndex)} :
          \E r \in store[t].recs :
              r.sName = ret.name /\ r.nId = ret.mapping[1].mapping_id

\* C19: getmappingname never saves: whether it returns a name or fails, the
\* database after the call is the database before it.
C19_ResolveReadOnly ==
    ret.op = "getmappingname" => store = storeBefore

\* A name was resolved from an index of several records.
C19_Witness ==
    /\ ret.op = "getmappingname"
    /\ ret.status = Ok
    /\ Cardinality(RecsBefore(ret.mIndex)) >= 2
    /\ store = storeBefore

====
